---- MODULE Spec2Model ----
(***************************************************************************)
(* Marker send restrictions of the provenance marker module.               *)
(*                                                                         *)
(* The ledger (marker accounts, send-deny list, account attributes) is the *)
(* state; SendRestrictionFn is the bank send restriction evaluated against *)
(* it for one proposed transfer.  Strings that the code inspects character *)
(* by character (attribute names) are sequences of one-character strings.  *)
(***************************************************************************)
EXTENDS Naturals, Sequences, FiniteSets, TLC

VARIABLES accounts, sendDeny, attributes, last

vars == <<accounts, sendDeny, attributes, last>>

----------------------------------------------------------------------------
(* Bounds of the model *)

\* longest list of transfer agents attached to a context
MaxAgents == 2
\* largest amount of one coin
MaxAmount == 1
\* most permissions granted on one marker of the ledger, over all its grants
MaxPermissions == 1

----------------------------------------------------------------------------
(* Keeper configuration and address universe *)

feeCollectorAddr == "fee_collector"
markerModuleAddr == "marker_module"
ibcTransferModuleAddr == "ibc_transfer_module"

\* ordered as Go orders the strings
DenomOrder == <<"d1", "d2">>
Denoms == {DenomOrder[i] : i \in 1..Len(DenomOrder)}

MustGetMarkerAddress(denom) == "marker/" \o denom

MarkerAddrs == {MustGetMarkerAddress(d) : d \in Denoms}

\* addresses on the keeper's required-attribute bypass list
reqAttrBypassAddrs == {"byp"}

IsReqAttrBypassAddr(addr) == addr \in reqAttrBypassAddrs

AgentOrder == <<"adm1", "adm2", "adm3">>
Agents == {AgentOrder[i] : i \in 1..Len(AgentOrder)}

\* marker.pb.go enum names
Access_Deposit == "ACCESS_DEPOSIT"
Access_Withdraw == "ACCESS_WITHDRAW"
Access_Transfer == "ACCESS_TRANSFER"
Access_Admin == "ACCESS_ADMIN"

StatusProposed == "proposed"
StatusFinalized == "finalized"
StatusActive == "active"
StatusCancelled == "cancelled"
StatusDestroyed == "destroyed"

MarkerType_Coin == "MARKER_TYPE_COIN"
MarkerType_RestrictedCoin == "MARKER_TYPE_RESTRICTED"

----------------------------------------------------------------------------
(* strings.HasPrefix / strings.HasSuffix on character sequences *)

HasPrefix(s, prefix) ==
    /\ Len(s) >= Len(prefix)
    /\ SubSeq(s, 1, Len(prefix)) = prefix

HasSuffix(s, suffix) ==
    /\ Len(s) >= Len(suffix)
    /\ SubSeq(s, Len(s) - Len(suffix) + 1, Len(s)) = suffix

\* slip: the '.' is dropped from the suffix along with the '*'
MatchAttribute_DotDropped(reqAttr, attr) ==
    IF Len(reqAttr) < 1
    THEN FALSE
    ELSE IF HasPrefix(reqAttr, <<"*", ".">>)
         THEN HasSuffix(attr, Tail(Tail(reqAttr)))
         ELSE reqAttr = attr

\* MatchAttribute returns true if the provided attr satisfies the reqAttr.
MatchAttribute(reqAttr, attr) ==
    IF Len(reqAttr) < 1
    THEN FALSE
    ELSE IF HasPrefix(reqAttr, <<"*", ".">>)
         THEN HasSuffix(attr, Tail(reqAttr))
         ELSE reqAttr = attr

\* findMissingAttributes: the entries of required that no attribute matches,
\* in the order of required.
RECURSIVE findMissingAttributes(_, _)
findMissingAttributes(required, attrs) ==
    IF required = <<>>
    THEN <<>>
    ELSE LET req == Head(required)
             rest == findMissingAttributes(Tail(required), attrs)
         IN IF \E i \in 1..Len(attrs) : MatchAttribute(req, attrs[i])
            THEN rest
            ELSE <<req>> \o rest

----------------------------------------------------------------------------
(* MarkerAccount access queries (types/marker.go) *)

Nil == [nil |-> TRUE]

\* AccessGrant.HasAccess
GrantHasAccess(g, role) == role \in g.Permissions

HasAccess(ma, addr, role) ==
    \E i \in 1..Len(ma.AccessControl) :
        /\ ma.AccessControl[i].Address = addr
        /\ GrantHasAccess(ma.AccessControl[i], role)

AddressHasAccess(ma, addr, role) == HasAccess(ma, addr, role)

AtLeastOneAddrHasAccess(ma, addrs, role) ==
    \E i \in 1..Len(addrs) : HasAccess(ma, addrs[i], role)

----------------------------------------------------------------------------
(* Errors: one msg per message format of the code *)

NoError == [msg |-> "", addrs |-> <<>>, role |-> "", denom |-> "", missing |-> <<>>]

Error(msg, addrs, role, denom, missing) ==
    [msg |-> msg, addrs |-> addrs, role |-> role, denom |-> denom, missing |-> missing]

ErrNotMarkerAccount == "account is not a marker account"
ErrBypassFeeCollector == "cannot send restricted denom to the fee collector"
ErrCannotWithdraw == "cannot withdraw from marker account"
ErrDoesNotHave == "does not have access on marker"
ErrNoneHavePermission == "none have permission on marker"
ErrNoneHave == "none have access on marker"
ErrWithdrawNotActive == "cannot withdraw from marker: marker status is not active"
ErrSendNotActive == "cannot send coins: marker status is not active"
ErrFeeCollector == "restricted denom cannot be sent to the fee collector"
ErrDenyList == "is on deny list for sending restricted marker"
ErrNoTransferPermissions == "does not have transfer permissions"
ErrGetAttributes == "could not get attributes"
ErrMissingAttributes == "does not contain the required attributes"

\* ValidateHasAccess returns an error if addr does not have role in this marker.
ValidateHasAccess(ma, addr, role) ==
    IF ~HasAccess(ma, addr, role)
    THEN Error(ErrDoesNotHave, <<addr>>, role, ma.Denom, <<>>)
    ELSE NoError

ValidateAddressHasAccess(ma, addr, role) == ValidateHasAccess(ma, addr, role)

\* ValidateAtLeastOneAddrHasAccess returns an error if no entry of addrs has role.
ValidateAtLeastOneAddrHasAccess(ma, addrs, role) ==
    IF Len(addrs) = 1
    THEN ValidateHasAccess(ma, addrs[1], role)
    ELSE IF ~AtLeastOneAddrHasAccess(ma, addrs, role)
         THEN Error(ErrNoneHavePermission, addrs, role, ma.Denom, <<>>)
         ELSE NoError

----------------------------------------------------------------------------
(* Collaborators of the keeper *)

NoAccount == [kind |-> "none"]
OtherAccount == [kind |-> "other"]

\* GetMarker: the marker account at address, nil when there is no account
\* there, an error when the account there is not a marker.
GetMarker(address) ==
    IF address \notin DOMAIN accounts \/ accounts[address].kind = "none"
    THEN [marker |-> Nil, err |-> NoError]
    ELSE IF accounts[address].kind = "marker"
         THEN [marker |-> accounts[address], err |-> NoError]
         ELSE [marker |-> Nil,
               err |-> Error(ErrNotMarkerAccount, <<address>>, "", "", <<>>)]

IsSendDeny(markerAddr, senderAddr) == <<markerAddr, senderAddr>> \in sendDeny

\* GetAllAttributesAddr: the attribute names held by addr, or an error.
GetAllAttributesAddr(addr) ==
    IF addr \in DOMAIN attributes
    THEN attributes[addr]
    ELSE [names |-> <<>>, err |-> FALSE]

HasBypass(ctx) == ctx.bypass
HasFeeGrantInUse(ctx) == ctx.feeGrantInUse
GetTransferAgents(ctx) == ctx.transferAgents

\* sdk.Coins.Find: binary search by denom
DenomRank(denom) == CHOOSE i \in 1..Len(DenomOrder) : DenomOrder[i] = denom

RECURSIVE Find(_, _)
Find(coins, denom) ==
    IF Len(coins) = 0
    THEN [found |-> FALSE, Amount |-> 0]
    ELSE IF Len(coins) = 1
    THEN IF coins[1].Denom = denom
         THEN [found |-> TRUE, Amount |-> coins[1].Amount]
         ELSE [found |-> FALSE, Amount |-> 0]
    ELSE LET midIdx == Len(coins) \div 2
             coin == coins[midIdx + 1]
         IN IF DenomRank(denom) < DenomRank(coin.Denom)
            THEN Find(SubSeq(coins, 1, midIdx), denom)
            ELSE IF denom = coin.Denom
                 THEN [found |-> TRUE, Amount |-> coin.Amount]
                 ELSE Find(SubSeq(coins, midIdx + 2, Len(coins)), denom)

----------------------------------------------------------------------------
(* validateSendDenom, block by block, last block first *)

\* slip: the bypass of the attribute check is looked up for from, not to
validateSendDenom_ReqAttr_FromBypass(fromAddr, toAddr, denom, marker) ==
    LET reqAttr == marker.RequiredAttributes
    IN IF Len(reqAttr) = 0
       THEN IF IsReqAttrBypassAddr(fromAddr)
            THEN NoError
            ELSE Error(ErrNoTransferPermissions, <<fromAddr>>, "", denom, <<>>)
       ELSE IF IsReqAttrBypassAddr(fromAddr)
       THEN NoError
       ELSE LET got == GetAllAttributesAddr(toAddr)
            IN IF got.err
               THEN Error(ErrGetAttributes, <<toAddr>>, "", "", <<>>)
               ELSE LET missing == findMissingAttributes(reqAttr, got.names)
                    IN IF Len(missing) # 0
                       THEN Error(ErrMissingAttributes, <<toAddr>>, "", denom, missing)
                       ELSE NoError

\* required attributes (send_restrictions.go 157-188)
validateSendDenom_ReqAttr(fromAddr, toAddr, denom, marker) ==
    LET reqAttr == marker.RequiredAttributes
    IN IF Len(reqAttr) = 0
       THEN IF IsReqAttrBypassAddr(fromAddr)
            THEN NoError
            ELSE Error(ErrNoTransferPermissions, <<fromAddr>>, "", denom, <<>>)
       ELSE IF IsReqAttrBypassAddr(toAddr)
       THEN NoError
       ELSE LET got == GetAllAttributesAddr(toAddr)
            IN IF got.err
               THEN Error(ErrGetAttributes, <<toAddr>>, "", "", <<>>)
               ELSE LET missing == findMissingAttributes(reqAttr, got.names)
                    IN IF Len(missing) # 0
                       THEN Error(ErrMissingAttributes, <<toAddr>>, "", denom, missing)
                       ELSE NoError

\* slip: a marker destination is treated like any other
validateSendDenom_ToMarker_Skipped(fromAddr, toAddr, admins, denom, toMarker, marker) ==
    validateSendDenom_ReqAttr(fromAddr, toAddr, denom, marker)

\* going to a marker (139-155)
validateSendDenom_ToMarker(fromAddr, toAddr, admins, denom, toMarker, marker) ==
    IF toMarker # Nil
    THEN IF Len(admins) = 0
         THEN Error(ErrDoesNotHave, <<fromAddr>>, Access_Transfer, denom, <<>>)
         ELSE Error(ErrNoneHave, <<fromAddr>> \o admins, Access_Transfer, denom, <<>>)
    ELSE validateSendDenom_ReqAttr(fromAddr, toAddr, denom, marker)

\* slip: the sender's transfer access is looked at before the deny list
validateSendDenom_Sender_TransferFirst(fromAddr, toAddr, admins, denom, toMarker, marker) ==
    IF AddressHasAccess(marker, fromAddr, Access_Transfer)
    THEN NoError
    ELSE IF IsSendDeny(MustGetMarkerAddress(denom), fromAddr)
         THEN Error(ErrDenyList, <<fromAddr>>, "", "", <<>>)
         ELSE validateSendDenom_ToMarker(fromAddr, toAddr, admins, denom, toMarker, marker)

\* deny list, then the sender's own transfer access (126-137)
validateSendDenom_Sender(fromAddr, toAddr, admins, denom, toMarker, marker) ==
    IF IsSendDeny(MustGetMarkerAddress(denom), fromAddr)
    THEN Error(ErrDenyList, <<fromAddr>>, "", "", <<>>)
    ELSE IF AddressHasAccess(marker, fromAddr, Access_Transfer)
         THEN NoError
         ELSE validateSendDenom_ToMarker(fromAddr, toAddr, admins, denom, toMarker, marker)

\* slip: the deny list is enforced before the admins are looked at
validateSendDenom_Admin_DenyFirst(fromAddr, toAddr, admins, denom, toMarker, marker) ==
    IF IsSendDeny(MustGetMarkerAddress(denom), fromAddr)
    THEN Error(ErrDenyList, <<fromAddr>>, "", "", <<>>)
    ELSE IF Len(admins) > 0 /\ AtLeastOneAddrHasAccess(marker, admins, Access_Transfer)
         THEN NoError
         ELSE validateSendDenom_Sender(fromAddr, toAddr, admins, denom, toMarker, marker)

\* an admin with transfer access (121-124)
validateSendDenom_Admin(fromAddr, toAddr, admins, denom, toMarker, marker) ==
    IF Len(admins) > 0 /\ AtLeastOneAddrHasAccess(marker, admins, Access_Transfer)
    THEN NoError
    ELSE validateSendDenom_Sender(fromAddr, toAddr, admins, denom, toMarker, marker)

\* slip: the error of the marker lookup is dropped, as for from and to
validateSendDenom_LookupIgnored(fromAddr, toAddr, admins, denom, toMarker) ==
    LET markerAddr == MustGetMarkerAddress(denom)
        got == GetMarker(markerAddr)
        marker == got.marker
    IN IF marker = Nil
       THEN NoError
       ELSE IF marker.Status # StatusActive
       THEN Error(ErrSendNotActive, <<>>, "", denom, <<>>)
       ELSE IF marker.MarkerType # MarkerType_RestrictedCoin
       THEN NoError
       ELSE IF toAddr = feeCollectorAddr
       THEN Error(ErrFeeCollector, <<>>, "", denom, <<>>)
       ELSE validateSendDenom_Admin(fromAddr, toAddr, admins, denom, toMarker, marker)

\* slip: the type of the marker is looked at before its status
validateSendDenom_TypeFirst(fromAddr, toAddr, admins, denom, toMarker) ==
    LET markerAddr == MustGetMarkerAddress(denom)
        got == GetMarker(markerAddr)
        marker == got.marker
    IN IF got.err # NoError
       THEN got.err
       ELSE IF marker = Nil \/ marker.MarkerType # MarkerType_RestrictedCoin
       THEN NoError
       ELSE IF marker.Status # StatusActive
       THEN Error(ErrSendNotActive, <<>>, "", denom, <<>>)
       ELSE IF toAddr = feeCollectorAddr
       THEN Error(ErrFeeCollector, <<>>, "", denom, <<>>)
       ELSE validateSendDenom_Admin(fromAddr, toAddr, admins, denom, toMarker, marker)

\* validateSendDenom makes sure a send of the given denom is allowed (99-119)
validateSendDenom(fromAddr, toAddr, admins, denom, toMarker) ==
    LET markerAddr == MustGetMarkerAddress(denom)
        got == GetMarker(markerAddr)
        marker == got.marker
    IN IF got.err # NoError
       THEN got.err
       ELSE IF marker # Nil /\ marker.Status # StatusActive
       THEN Error(ErrSendNotActive, <<>>, "", denom, <<>>)
       ELSE IF marker = Nil \/ marker.MarkerType # MarkerType_RestrictedCoin
       THEN NoError
       ELSE IF toAddr = feeCollectorAddr
       THEN Error(ErrFeeCollector, <<>>, "", denom, <<>>)
       ELSE validateSendDenom_Admin(fromAddr, toAddr, admins, denom, toMarker, marker)

----------------------------------------------------------------------------
(* SendRestrictionFn, block by block, last block first *)

Allowed(toAddr) == [addr |-> toAddr, err |-> NoError]
Denied(err) == [addr |-> "", err |-> err]

\* slip: the loop returns after the first coin it looks at
SendRestrictionFn_Denoms_FirstOnly(fromAddr, toAddr, admins, amt, toMarker, i) ==
    IF i > Len(amt)
    THEN Allowed(toAddr)
    ELSE LET err == validateSendDenom(fromAddr, toAddr, admins, amt[i].Denom, toMarker)
         IN IF err # NoError
            THEN Denied(err)
            ELSE Allowed(toAddr)

\* Check the ability to send each denom involved (87-94): coins i..Len(amt)
RECURSIVE SendRestrictionFn_Denoms(_, _, _, _, _, _)
SendRestrictionFn_Denoms(fromAddr, toAddr, admins, amt, toMarker, i) ==
    IF i > Len(amt)
    THEN Allowed(toAddr)
    ELSE LET err == validateSendDenom(fromAddr, toAddr, admins, amt[i].Denom, toMarker)
         IN IF err # NoError
            THEN Denied(err)
            ELSE SendRestrictionFn_Denoms(fromAddr, toAddr, admins, amt, toMarker, i + 1)

\* slip: the deposit access of from counts even when there are admins
SendRestrictionFn_Deposit_FromToo(fromAddr, toAddr, admins, amt) ==
    LET toMarker == GetMarker(toAddr).marker
        err == IF toMarker # Nil /\ toMarker.MarkerType = MarkerType_RestrictedCoin
               THEN IF Len(admins) > 0 /\ ~HasAccess(toMarker, fromAddr, Access_Deposit)
                    THEN ValidateAtLeastOneAddrHasAccess(toMarker, admins, Access_Deposit)
                    ELSE ValidateAddressHasAccess(toMarker, fromAddr, Access_Deposit)
               ELSE NoError
    IN IF err # NoError
       THEN Denied(err)
       ELSE SendRestrictionFn_Denoms(fromAddr, toAddr, admins, amt, toMarker, 1)

\* going to a restricted marker (72-85); the error of GetMarker is dropped
SendRestrictionFn_Deposit(fromAddr, toAddr, admins, amt) ==
    LET toMarker == GetMarker(toAddr).marker
        err == IF toMarker # Nil /\ toMarker.MarkerType = MarkerType_RestrictedCoin
               THEN IF Len(admins) > 0
                    THEN ValidateAtLeastOneAddrHasAccess(toMarker, admins, Access_Deposit)
                    ELSE ValidateAddressHasAccess(toMarker, fromAddr, Access_Deposit)
               ELSE NoError
    IN IF err # NoError
       THEN Denied(err)
       ELSE SendRestrictionFn_Denoms(fromAddr, toAddr, admins, amt, toMarker, 1)

\* slip: a coin of amount zero counts as a withdrawal too
SendRestrictionFn_FromStatus_AnyAmount(fromAddr, toAddr, admins, amt, fromMarker) ==
    IF fromMarker.Status # StatusActive /\ Find(amt, fromMarker.Denom).found
    THEN Denied(Error(ErrWithdrawNotActive, <<fromAddr>>, "", fromMarker.Denom, <<>>))
    ELSE SendRestrictionFn_Deposit(fromAddr, toAddr, admins, amt)

\* the coins created by a marker can only be withdrawn when it is active (61-69)
SendRestrictionFn_FromStatus(fromAddr, toAddr, admins, amt, fromMarker) ==
    LET got == Find(amt, fromMarker.Denom)
    IN IF /\ fromMarker.Status # StatusActive
          /\ got.found
          /\ got.Amount # 0
       THEN Denied(Error(ErrWithdrawNotActive, <<fromAddr>>, "", fromMarker.Denom, <<>>))
       ELSE SendRestrictionFn_Deposit(fromAddr, toAddr, admins, amt)

\* slip: any transfer agent at all is taken to authorize the withdraw
SendRestrictionFn_Withdraw_AnyAgent(ctx, fromAddr, toAddr, amt) ==
    LET admins == GetTransferAgents(ctx)
        fromMarker == GetMarker(fromAddr).marker
    IN IF fromMarker = Nil
       THEN SendRestrictionFn_Deposit(fromAddr, toAddr, admins, amt)
       ELSE IF ~HasFeeGrantInUse(ctx) /\ Len(admins) = 0
            THEN Denied(Error(ErrCannotWithdraw, <<fromAddr>>, "", fromMarker.Denom, <<>>))
            ELSE SendRestrictionFn_FromStatus(fromAddr, toAddr, admins, amt, fromMarker)

\* coming from a marker (39-60); the error of GetMarker is dropped
SendRestrictionFn_Withdraw(ctx, fromAddr, toAddr, amt) ==
    LET admins == GetTransferAgents(ctx)
        fromMarker == GetMarker(fromAddr).marker
    IN IF fromMarker = Nil
       THEN SendRestrictionFn_Deposit(fromAddr, toAddr, admins, amt)
       ELSE LET err ==
                  IF ~HasFeeGrantInUse(ctx)
                  THEN IF Len(admins) = 0
                       THEN Error(ErrCannotWithdraw, <<fromAddr>>, "", fromMarker.Denom, <<>>)
                       ELSE ValidateAtLeastOneAddrHasAccess(fromMarker, admins, Access_Withdraw)
                  ELSE NoError
            IN IF err # NoError
               THEN Denied(err)
               ELSE SendRestrictionFn_FromStatus(fromAddr, toAddr, admins, amt, fromMarker)

\* slip: a bypass lets everything through
SendRestrictionFn_Bypass_NoFeeCheck(toAddr, amt, i) == Allowed(toAddr)

\* with a bypass, restricted denoms still cannot go to the fee collector (24-36)
RECURSIVE SendRestrictionFn_Bypass(_, _, _)
SendRestrictionFn_Bypass(toAddr, amt, i) ==
    IF toAddr # feeCollectorAddr \/ i > Len(amt)
    THEN Allowed(toAddr)
    ELSE LET got == GetMarker(MustGetMarkerAddress(amt[i].Denom))
         IN IF got.err # NoError
            THEN Denied(got.err)
            ELSE IF /\ got.marker # Nil
                    /\ got.marker.MarkerType = MarkerType_RestrictedCoin
                 THEN Denied(Error(ErrBypassFeeCollector, <<>>, "", amt[i].Denom, <<>>))
                 ELSE SendRestrictionFn_Bypass(toAddr, amt, i + 1)

\* slip: the IBC transfer module account is left out
IsBypassSender_NoIbc(ctx, fromAddr) ==
    \/ HasBypass(ctx)
    \/ fromAddr = markerModuleAddr

\* the module accounts whose sends are taken as validated elsewhere (22)
IsBypassSender(ctx, fromAddr) ==
    \/ HasBypass(ctx)
    \/ fromAddr = markerModuleAddr
    \/ fromAddr = ibcTransferModuleAddr

SendRestrictionFn(ctx, fromAddr, toAddr, amt) ==
    IF IsBypassSender(ctx, fromAddr)
    THEN SendRestrictionFn_Bypass(toAddr, amt, 1)
    ELSE SendRestrictionFn_Withdraw(ctx, fromAddr, toAddr, amt)

----------------------------------------------------------------------------
(* Ledger snapshots *)

MarkerStatusOrder ==
    <<StatusProposed, StatusFinalized, StatusActive, StatusCancelled, StatusDestroyed>>

StatusRank(status) ==
    CHOOSE i \in 1..Len(MarkerStatusOrder) : MarkerStatusOrder[i] = status

\* NewMarkerAccount creates a marker account over the address of its denom
NewMarkerAccount(denom, manager, accessControls, status, markerType, requiredAttributes) ==
    [kind |-> "marker",
     Address |-> MustGetMarkerAddress(denom),
     Denom |-> denom,
     Manager |-> IF StatusRank(status) >= StatusRank(StatusActive) THEN "" ELSE manager,
     AccessControl |-> accessControls,
     Status |-> status,
     MarkerType |-> markerType,
     RequiredAttributes |-> requiredAttributes]

SeqsUpTo(S, n) == UNION {[1..k -> S] : k \in 0..n}

\* required-attribute lists and held attribute names, as character sequences
RequiredAttributeLists ==
    {<<>>,
     << <<"k">>, <<"*", ".", "k">> >>}

AttributeLists ==
    {[names |-> <<>>, err |-> FALSE],
     [names |-> << <<"k">> >>, err |-> FALSE],
     [names |-> << <<"k">>, <<"a", ".", "k">> >>, err |-> FALSE],
     [names |-> <<>>, err |-> TRUE]}

Grantees == {"alice", "adm1", "adm2"}

\* ValidateGrantsForMarkerType: the roles a marker of this type supports,
\* among those the send restriction reads
GrantRoles(markerType) ==
    IF markerType = MarkerType_RestrictedCoin
    THEN {Access_Deposit, Access_Withdraw, Access_Transfer}
    ELSE {Access_Deposit, Access_Withdraw}

AccessGrants(markerType) ==
    {[Address |-> a, Permissions |-> p] :
        a \in Grantees, p \in (SUBSET GrantRoles(markerType)) \ {{}}}

RECURSIVE TotalPermissions(_)
TotalPermissions(acl) ==
    IF acl = <<>> THEN 0
    ELSE Cardinality(Head(acl).Permissions) + TotalPermissions(Tail(acl))

\* access-control lists: one grant per address
AccessLists(markerType) ==
    {l \in SeqsUpTo(AccessGrants(markerType), MaxPermissions) :
        /\ \A i, j \in 1..Len(l) : i # j => l[i].Address # l[j].Address
        /\ TotalPermissions(l) <= MaxPermissions}

MarkerTypes == {MarkerType_Coin, MarkerType_RestrictedCoin}

\* what may sit at the marker address of the first denom
FirstAccounts ==
    {NoAccount, OtherAccount} \cup
    UNION {{NewMarkerAccount(DenomOrder[1], "manager", acl, st, mt, req) :
                acl \in AccessLists(mt),
                st \in {StatusProposed, StatusActive},
                req \in RequiredAttributeLists} : mt \in MarkerTypes}

\* the second denom has an active marker nobody holds access on
SecondAccounts ==
    {NewMarkerAccount(DenomOrder[2], "", <<>>, StatusActive, mt, <<>>) : mt \in MarkerTypes}

Senders == {"alice", "byp"}
Receivers == {"bob", "byp"}
AttrHolders == {"bob"}

----------------------------------------------------------------------------
(* Calls *)

FromAddrs ==
    Senders \cup {markerModuleAddr, ibcTransferModuleAddr, MustGetMarkerAddress(DenomOrder[1])}
ToAddrs == Receivers \cup {feeCollectorAddr} \cup MarkerAddrs

\* transfer agents attached to a context: the first n agents
AgentLists == {SubSeq(AgentOrder, 1, n) : n \in 0..MaxAgents}

Contexts ==
    [bypass : BOOLEAN, feeGrantInUse : BOOLEAN, transferAgents : AgentLists]

\* sdk.Coins: sorted by denom, no denom twice
CoinsSet ==
    {c \in SeqsUpTo([Denom : Denoms, Amount : 0..MaxAmount], Len(DenomOrder)) :
        \A i \in 1..Len(c) : \A j \in 1..Len(c) :
            i < j => DenomRank(c[i].Denom) < DenomRank(c[j].Denom)}

NoCall == [called |-> FALSE]

Init ==
    /\ \E a1 \in FirstAccounts, a2 \in SecondAccounts :
          accounts = (MustGetMarkerAddress(DenomOrder[1]) :> a1)
                        @@ (MustGetMarkerAddress(DenomOrder[2]) :> a2)
    /\ sendDeny \in SUBSET {<<MustGetMarkerAddress(DenomOrder[1]), "alice">>}
    /\ attributes \in [AttrHolders -> AttributeLists]
    /\ last = NoCall

\* the bank keeper asks whether the transfer may go ahead
Send(ctx, fromAddr, toAddr, amt) ==
    /\ last' = [called |-> TRUE, ctx |-> ctx, fromAddr |-> fromAddr, toAddr |-> toAddr,
                amt |-> amt, result |-> SendRestrictionFn(ctx, fromAddr, toAddr, amt)]
    /\ UNCHANGED <<accounts, sendDeny, attributes>>

\* the call has returned
Return ==
    /\ last # NoCall
    /\ last' = NoCall
    /\ UNCHANGED <<accounts, sendDeny, attributes>>

Call ==
    /\ last = NoCall
    /\ \E ctx \in Contexts, fromAddr \in FromAddrs, toAddr \in ToAddrs, amt \in CoinsSet :
          Send(ctx, fromAddr, toAddr, amt)

Next == Call \/ Return

Spec == Init /\ [][Next]_vars

----------------------------------------------------------------------------
(* Vocabulary of the properties, stated on the ledger and the recorded call *)

Called == last.called
Exempt == last.ctx.bypass \/ last.fromAddr \in {markerModuleAddr, ibcTransferModuleAddr}
NormalSend == Called /\ ~Exempt
IsAllowed == last.result.err = NoError /\ last.result.addr = last.toAddr
IsDenied == last.result.err # NoError

\* the marker account at an address, Nil when none is there
MarkerAt(addr) ==
    IF addr \in DOMAIN accounts /\ accounts[addr].kind = "marker"
    THEN accounts[addr]
    ELSE Nil

LookupFails(addr) == addr \in DOMAIN accounts /\ accounts[addr].kind = "other"

MarkerOfDenom(denom) == MarkerAt("marker/" \o denom)

Holds(m, addr, role) ==
    \E g \in {m.AccessControl[i] : i \in DOMAIN m.AccessControl} :
        g.Address = addr /\ role \in g.Permissions

AgentSet == {last.ctx.transferAgents[i] : i \in DOMAIN last.ctx.transferAgents}
AnyAgentHolds(m, role) == \E a \in AgentSet : Holds(m, a, role)

IsRestricted(m) == m # Nil /\ m.MarkerType = MarkerType_RestrictedCoin
IsActive(m) == m # Nil /\ m.Status = StatusActive

\* the reasons of the specification, by the messages of the code
IsRestrictedToFeeCollector(err) == err.msg \in {ErrBypassFeeCollector, ErrFeeCollector}
IsWithdrawNotAuthorized(err) ==
    \/ err.msg = ErrCannotWithdraw
    \/ err.msg \in {ErrDoesNotHave, ErrNoneHavePermission} /\ err.role = Access_Withdraw
IsDepositNotAuthorized(err) ==
    err.msg \in {ErrDoesNotHave, ErrNoneHavePermission} /\ err.role = Access_Deposit
IsMarkerNotActive(err) == err.msg \in {ErrWithdrawNotActive, ErrSendNotActive}
IsSenderDenied(err) == err.msg = ErrDenyList
IsTransferNotAuthorized(err) ==
    \/ err.msg \in {ErrDoesNotHave, ErrNoneHave} /\ err.role = Access_Transfer
    \/ err.msg = ErrNoTransferPermissions
IsMissingRequiredAttributes(err) == err.msg = ErrMissingAttributes
IsLookupFailure(err) == err.msg \in {ErrNotMarkerAccount, ErrGetAttributes}

CoinIdx == 1..Len(last.amt)
\* the call moves coins, each of a positive amount, as a validated sdk.Coins
PositiveCoins == Len(last.amt) > 0 /\ \A i \in CoinIdx : last.amt[i].Amount > 0
DenomAt(i) == last.amt[i].Denom

\* the sender-side checks pass: from is no marker, or its withdraw is
\* authorized and none of its own coins leaves it while it is not active
SenderSidePass ==
    LET fm == MarkerAt(last.fromAddr)
    IN \/ fm = Nil
       \/ /\ last.ctx.feeGrantInUse \/ AnyAgentHolds(fm, Access_Withdraw)
          /\ \/ fm.Status = StatusActive
             \/ ~\E i \in CoinIdx : DenomAt(i) = fm.Denom /\ last.amt[i].Amount > 0

\* Deposit on the receiving marker is held by an agent when there are
\* agents, by from when there are none
DepositHeld(tm) ==
    IF AgentSet # {}
    THEN AnyAgentHolds(tm, Access_Deposit)
    ELSE Holds(tm, last.fromAddr, Access_Deposit)

ReceiverSidePass ==
    LET tm == MarkerAt(last.toAddr)
    IN IsRestricted(tm) => DepositHeld(tm)

\* what the per-denom rule answers for coin i of the recorded call
DenomVerdict(i) ==
    validateSendDenom(last.fromAddr, last.toAddr, last.ctx.transferAgents,
                      DenomAt(i), MarkerAt(last.toAddr))

\* the loop over the coins gets to coin i
ReachedDenom(i) ==
    /\ SenderSidePass
    /\ ReceiverSidePass
    /\ \A j \in 1..(i - 1) : DenomVerdict(j) = NoError

----------------------------------------------------------------------------
(* C1 *)

\* coin i is of an active restricted marker, in a normal send not to the fee
\* collector, no agent holds Transfer on the marker, from is on its deny list
C1_Case(i) ==
    LET m == MarkerOfDenom(DenomAt(i))
    IN /\ NormalSend
       /\ IsActive(m)
       /\ IsRestricted(m)
       /\ last.toAddr # feeCollectorAddr
       /\ ~AnyAgentHolds(m, Access_Transfer)
       /\ <<m.Address, last.fromAddr>> \in sendDeny

\* C1 as stated: a sender on the deny list of the marker of a coin is denied
\* with SenderDenied, whether or not it holds Transfer on that marker.
C1_Stated ==
    Called /\ PositiveCoins =>
        \A i \in CoinIdx : C1_Case(i) => IsSenderDenied(last.result.err)

\* C1, amended: a sender on the deny list of the marker of a coin is never
\* allowed, whether or not it holds Transfer on that marker, and the denial
\* is SenderDenied whenever the loop over the coins gets to that coin.
C1_DenyListPrecedence ==
    Called => \A i \in CoinIdx :
        C1_Case(i) =>
            /\ IsDenied
            /\ ReachedDenom(i) => IsSenderDenied(last.result.err)

C1_Witness ==
    /\ Called
    /\ \E i \in CoinIdx :
          /\ C1_Case(i)
          /\ Holds(MarkerOfDenom(DenomAt(i)), last.fromAddr, Access_Transfer)
          /\ ReachedDenom(i)
          /\ IsSenderDenied(last.result.err)

----------------------------------------------------------------------------
(* C2 *)

SendsRestrictedCoin == \E i \in CoinIdx : IsRestricted(MarkerOfDenom(DenomAt(i)))

\* C2: whatever the context, a transfer to the fee collector whose coins
\* include one of a restricted marker is not allowed.
C2_NoRestrictedToFeeCollector ==
    Called => (last.toAddr = feeCollectorAddr /\ SendsRestrictedCoin => IsDenied)

C2_Witness ==
    /\ NormalSend
    /\ last.toAddr = feeCollectorAddr
    /\ sendDeny = {}
    /\ \E i \in CoinIdx :
          LET m == MarkerOfDenom(DenomAt(i))
          IN IsRestricted(m) /\ IsActive(m) /\ Holds(m, last.fromAddr, Access_Transfer)
    /\ IsRestrictedToFeeCollector(last.result.err)

----------------------------------------------------------------------------
(* C3 *)

\* coin i of a restricted marker has been allowed into a marker account
C3_Case(i) ==
    /\ IsAllowed
    /\ IsRestricted(MarkerOfDenom(DenomAt(i)))
    /\ MarkerAt(last.toAddr) # Nil

C3_TransferHeld(i) ==
    LET m == MarkerOfDenom(DenomAt(i))
    IN Holds(m, last.fromAddr, Access_Transfer) \/ AnyAgentHolds(m, Access_Transfer)

\* C3 as stated: in every call, bypass context included, a restricted coin
\* is allowed into a marker account only if from or an agent holds Transfer
\* (taken here for senders that are no module accounts).
C3_Stated ==
    Called /\ PositiveCoins /\ last.fromAddr \notin {markerModuleAddr, ibcTransferModuleAddr} =>
        \A i \in CoinIdx : C3_Case(i) => C3_TransferHeld(i)

\* C3, amended: in every call without a bypass context and not from a module
\* account, a restricted coin is allowed into a marker account only if from
\* or an agent holds Transfer on the marker of the coin.
C3_MarkerDestinationNeedsTransfer ==
    NormalSend => \A i \in CoinIdx : C3_Case(i) => C3_TransferHeld(i)

C3_Witness ==
    /\ NormalSend
    /\ last.fromAddr \in reqAttrBypassAddrs
    /\ \E i \in CoinIdx : C3_Case(i) /\ C3_TransferHeld(i)

----------------------------------------------------------------------------
(* C4 *)

WithdrawHeld(fm) == AgentSet # {} /\ AnyAgentHolds(fm, Access_Withdraw)

\* C4: in a normal send out of a marker account without a fee grant in use,
\* the transfer is allowed only if an agent holds Withdraw on that marker,
\* and is denied with WithdrawNotAuthorized when none does; with a fee grant
\* in use it is never denied with WithdrawNotAuthorized.
C4_WithdrawFromMarker ==
    NormalSend =>
        LET fm == MarkerAt(last.fromAddr)
        IN fm # Nil =>
            /\ ~last.ctx.feeGrantInUse =>
                  /\ IsAllowed => WithdrawHeld(fm)
                  /\ ~WithdrawHeld(fm) => IsWithdrawNotAuthorized(last.result.err)
            /\ last.ctx.feeGrantInUse => ~IsWithdrawNotAuthorized(last.result.err)

C4_Witness ==
    /\ NormalSend
    /\ MarkerAt(last.fromAddr) # Nil
    /\ ~last.ctx.feeGrantInUse
    /\ Len(last.ctx.transferAgents) > 1
    /\ ~Holds(MarkerAt(last.fromAddr), last.ctx.transferAgents[1], Access_Withdraw)
    /\ WithdrawHeld(MarkerAt(last.fromAddr))
    /\ PositiveCoins
    /\ IsAllowed

----------------------------------------------------------------------------
(* C5 *)

\* from is a marker that is not active and a positive amount of its own
\* denom is among the coins
C5_Case ==
    LET fm == MarkerAt(last.fromAddr)
    IN /\ fm # Nil
       /\ fm.Status # StatusActive
       /\ \E i \in CoinIdx : DenomAt(i) = fm.Denom /\ last.amt[i].Amount > 0

WithdrawAuthorized(fm) == last.ctx.feeGrantInUse \/ WithdrawHeld(fm)

\* C5 as stated: a transfer of its own denom out of a marker that is not
\* active is denied with MarkerNotActive (taken here where the withdraw is
\* authorized by an agent holding Withdraw or by a fee grant).
C5_Stated ==
    Called /\ PositiveCoins =>
        (C5_Case /\ WithdrawAuthorized(MarkerAt(last.fromAddr))
            => IsMarkerNotActive(last.result.err))

\* C5, amended: without a bypass context, a transfer of a positive amount of
\* its own denom out of a marker that is not active is never allowed, and
\* is denied by the sender-side MarkerNotActive rule whenever the withdraw
\* is authorized; that rule never fires when the coins hold no positive
\* amount of the marker's own denom.
C5_InactiveMarkerWithdraw ==
    NormalSend =>
        LET fm == MarkerAt(last.fromAddr)
        IN /\ C5_Case =>
                /\ IsDenied
                /\ WithdrawAuthorized(fm) => last.result.err.msg = ErrWithdrawNotActive
           /\ ~C5_Case => last.result.err.msg # ErrWithdrawNotActive

C5_Witness ==
    /\ NormalSend
    /\ C5_Case
    /\ WithdrawHeld(MarkerAt(last.fromAddr))
    /\ last.result.err.msg = ErrWithdrawNotActive

----------------------------------------------------------------------------
(* C6 *)

\* C6 as stated: in a normal send to a restricted marker the transfer is
\* allowed only if Deposit is held (by an agent when there are agents, by
\* from when there are none) and is denied with DepositNotAuthorized
\* otherwise.
C6_Stated ==
    NormalSend /\ PositiveCoins /\ last.fromAddr # last.toAddr =>
        LET tm == MarkerAt(last.toAddr)
        IN IsRestricted(tm) =>
            /\ IsAllowed => DepositHeld(tm)
            /\ ~DepositHeld(tm) => IsDepositNotAuthorized(last.result.err)

\* C6, amended: in a normal send to a restricted marker the transfer is
\* allowed only if Deposit is held (by an agent when there are agents, by
\* from when there are none); when it is not held the transfer is denied,
\* with DepositNotAuthorized whenever the sender-side checks pass; a
\* receiving marker of type Coin never leads to DepositNotAuthorized.
C6_DepositAccess ==
    NormalSend =>
        LET tm == MarkerAt(last.toAddr)
        IN /\ IsRestricted(tm) =>
                /\ IsAllowed => DepositHeld(tm)
                /\ ~DepositHeld(tm) =>
                      /\ IsDenied
                      /\ SenderSidePass => IsDepositNotAuthorized(last.result.err)
           /\ tm # Nil /\ ~IsRestricted(tm) => ~IsDepositNotAuthorized(last.result.err)

C6_Witness ==
    /\ NormalSend
    /\ IsRestricted(MarkerAt(last.toAddr))
    /\ AgentSet # {}
    /\ Holds(MarkerAt(last.toAddr), last.fromAddr, Access_Deposit)
    /\ ~AnyAgentHolds(MarkerAt(last.toAddr), Access_Deposit)
    /\ IsDepositNotAuthorized(last.result.err)

----------------------------------------------------------------------------
(* C7 *)

\* C7 as stated: with a bypass context or a module sender the transfer is
\* allowed, except that to the fee collector it is denied with
\* RestrictedToFeeCollector iff a coin is of a restricted marker.
C7_Stated ==
    Called /\ PositiveCoins /\ Exempt =>
        IF last.toAddr = feeCollectorAddr /\ SendsRestrictedCoin
        THEN IsRestrictedToFeeCollector(last.result.err)
        ELSE IsAllowed

\* the coins whose marker lookup fails or whose marker is restricted
C7_Stops ==
    {i \in CoinIdx : \/ LookupFails(MustGetMarkerAddress(DenomAt(i)))
                     \/ IsRestricted(MarkerOfDenom(DenomAt(i)))}

\* C7, amended: with a bypass context or a module sender the transfer is
\* allowed whatever the ledger holds, except to the fee collector: there the
\* coins are taken in order up to the first whose marker lookup fails or
\* whose marker is restricted; the call ends with the lookup error in the
\* first case, with RestrictedToFeeCollector for that denom in the second,
\* and is allowed when there is no such coin.
C7_BypassShortCircuit ==
    Called /\ Exempt =>
        IF last.toAddr # feeCollectorAddr \/ C7_Stops = {}
        THEN IsAllowed
        ELSE LET first == CHOOSE i \in C7_Stops : \A j \in C7_Stops : i <= j
             IN IF LookupFails(MustGetMarkerAddress(DenomAt(first)))
                THEN last.result.err.msg = ErrNotMarkerAccount
                ELSE /\ IsRestrictedToFeeCollector(last.result.err)
                     /\ last.result.err.denom = DenomAt(first)

C7_Witness ==
    /\ Called
    /\ ~last.ctx.bypass
    /\ last.fromAddr = ibcTransferModuleAddr
    /\ last.toAddr = feeCollectorAddr
    /\ Len(last.amt) > 1
    /\ ~IsRestricted(MarkerOfDenom(DenomAt(1)))
    /\ IsRestrictedToFeeCollector(last.result.err)

----------------------------------------------------------------------------
(* C8 *)

NoMarkerFor(denom) ==
    MarkerOfDenom(denom) = Nil /\ ~LookupFails(MustGetMarkerAddress(denom))

\* C8: in a normal send, the per-denom rule denies a coin whose marker is
\* not active with MarkerNotActive, whatever the type and the grants, and
\* the transfer is not allowed; it passes a coin without marker and a coin
\* of an active marker of type Coin.
C8_LifecycleGating ==
    NormalSend => \A i \in CoinIdx :
        LET m == MarkerOfDenom(DenomAt(i))
            v == DenomVerdict(i)
        IN /\ m # Nil /\ ~IsActive(m) =>
                /\ v.msg = ErrSendNotActive /\ v.denom = DenomAt(i)
                /\ IsDenied
                /\ ReachedDenom(i) => last.result.err = v
           /\ NoMarkerFor(DenomAt(i)) \/ (IsActive(m) /\ ~IsRestricted(m)) =>
                /\ v = NoError
                /\ ReachedDenom(i) /\ i = Len(last.amt) => IsAllowed

C8_Witness ==
    /\ NormalSend
    /\ \E i \in CoinIdx :
          LET m == MarkerOfDenom(DenomAt(i))
          IN /\ m # Nil
             /\ ~IsActive(m)
             /\ Holds(m, last.fromAddr, Access_Transfer)
             /\ ReachedDenom(i)
             /\ last.result.err.msg = ErrSendNotActive

----------------------------------------------------------------------------
(* C9 *)

C9_Case(i) ==
    LET m == MarkerOfDenom(DenomAt(i))
    IN /\ NormalSend
       /\ IsActive(m)
       /\ IsRestricted(m)
       /\ last.toAddr # feeCollectorAddr
       /\ AgentSet # {}
       /\ AnyAgentHolds(m, Access_Transfer)

\* C9: in a normal send not to the fee collector, the per-denom rule passes
\* a coin of an active restricted marker on which a transfer agent holds
\* Transfer, whatever the standing of from and to.
C9_DelegationSupersedes ==
    NormalSend => \A i \in CoinIdx :
        C9_Case(i) =>
            /\ DenomVerdict(i) = NoError
            /\ ReachedDenom(i) /\ i = Len(last.amt) => IsAllowed

C9_Witness ==
    /\ NormalSend
    /\ PositiveCoins
    /\ \E i \in CoinIdx :
          LET m == MarkerOfDenom(DenomAt(i))
          IN /\ C9_Case(i)
             /\ <<m.Address, last.fromAddr>> \in sendDeny
             /\ ~Holds(m, last.fromAddr, Access_Transfer)
             /\ MarkerAt(last.toAddr) # Nil
             /\ m.RequiredAttributes # <<>>
    /\ IsAllowed

----------------------------------------------------------------------------
(* C10 *)

C10_Case(i) ==
    LET m == MarkerOfDenom(DenomAt(i))
    IN /\ NormalSend
       /\ IsActive(m)
       /\ IsRestricted(m)
       /\ last.toAddr # feeCollectorAddr
       /\ MarkerAt(last.toAddr) = Nil
       /\ ~AnyAgentHolds(m, Access_Transfer)
       /\ ~Holds(m, last.fromAddr, Access_Transfer)
       /\ <<m.Address, last.fromAddr>> \notin sendDeny

\* what to holds, when the attribute lookup answers
HeldBy(addr) == IF addr \in DOMAIN attributes THEN attributes[addr].names ELSE <<>>
HeldLookupFails(addr) == addr \in DOMAIN attributes /\ attributes[addr].err

\* a pattern with the wildcard prefix is satisfied by a name that ends with
\* the pattern less its star; any other pattern by the equal name
Satisfies(name, pattern) ==
    IF Len(pattern) >= 2 /\ pattern[1] = "*" /\ pattern[2] = "."
    THEN \E k \in 0..Len(name) :
            SubSeq(name, k + 1, Len(name)) = SubSeq(pattern, 2, Len(pattern))
    ELSE Len(pattern) >= 1 /\ name = pattern

Unmatched(required, held) ==
    LET IsUnmatched(pattern) == ~\E n \in DOMAIN held : Satisfies(held[n], pattern)
    IN SelectSeq(required, IsUnmatched)

C10_Expected(i) ==
    LET required == MarkerOfDenom(DenomAt(i)).RequiredAttributes
    IN \/ required = <<>> /\ last.fromAddr \in reqAttrBypassAddrs
       \/ /\ required # <<>>
          /\ \/ last.toAddr \in reqAttrBypassAddrs
             \/ /\ ~HeldLookupFails(last.toAddr)
                /\ Unmatched(required, HeldBy(last.toAddr)) = <<>>

\* C10: where only the required attributes decide, the per-denom rule passes
\* the coin iff the marker requires none and from is on the bypass list, or
\* it requires some and to is on the bypass list or holds a match for each;
\* a denial for attributes is MissingRequiredAttributes with exactly the
\* unmatched patterns, in the order of the required attributes.
C10_RequiredAttributes ==
    NormalSend => \A i \in CoinIdx :
        C10_Case(i) =>
            LET required == MarkerOfDenom(DenomAt(i)).RequiredAttributes
                v == DenomVerdict(i)
            IN /\ v = NoError <=> C10_Expected(i)
               /\ ReachedDenom(i) /\ v # NoError => last.result.err = v
               /\ ReachedDenom(i) /\ i = Len(last.amt) /\ v = NoError => IsAllowed
               /\ (/\ required # <<>>
                   /\ last.toAddr \notin reqAttrBypassAddrs
                   /\ ~HeldLookupFails(last.toAddr)
                   /\ Unmatched(required, HeldBy(last.toAddr)) # <<>>)
                    => /\ IsMissingRequiredAttributes(v)
                       /\ v.missing = Unmatched(required, HeldBy(last.toAddr))

C10_Witness ==
    /\ NormalSend
    /\ PositiveCoins
    /\ \E i \in CoinIdx :
          /\ C10_Case(i)
          /\ ReachedDenom(i)
          /\ Len(MarkerOfDenom(DenomAt(i)).RequiredAttributes) > 1
          /\ HeldBy(last.toAddr) # <<>>
          /\ IsMissingRequiredAttributes(last.result.err)
          /\ Len(last.result.err.missing) = 1

----------------------------------------------------------------------------
(* Attribute matching: every short pattern against every short name *)

\* longest attribute name and pattern, in characters
MaxNameLen == 3
\* longest list of required attributes of the marker
MaxRequired == 2
\* longest list of attributes held by an account
MaxHeld == 2

\* the characters of names and patterns: the wildcard, the separator, a letter
AttrChars == {"*", ".", "k"}
AttrNames == SeqsUpTo(AttrChars, MaxNameLen)

\* a restricted marker with the required attributes, and what to holds
InitMatch ==
    /\ \E required \in SeqsUpTo(AttrNames, MaxRequired) :
          accounts = (MustGetMarkerAddress(DenomOrder[1]) :>
                        NewMarkerAccount(DenomOrder[1], "", <<>>, StatusActive,
                                         MarkerType_RestrictedCoin, required))
    /\ sendDeny = {}
    /\ \E held \in SeqsUpTo(AttrNames, MaxHeld) :
          attributes = [a \in AttrHolders |-> [names |-> held, err |-> FALSE]]
    /\ last = NoCall

\* validateSendDenom asks which required attributes of the denom toAddr lacks
FindMissing(denom, toAddr) ==
    /\ last = NoCall
    /\ LET required == GetMarker(MustGetMarkerAddress(denom)).marker.RequiredAttributes
           attrs == GetAllAttributesAddr(toAddr).names
       IN last' = [called |-> TRUE, op |-> "findMissingAttributes",
                   required |-> required, attrs |-> attrs,
                   missing |-> findMissingAttributes(required, attrs)]
    /\ UNCHANGED <<accounts, sendDeny, attributes>>

FindMissingCall == \E toAddr \in AttrHolders : FindMissing(DenomOrder[1], toAddr)

NextMatch == FindMissingCall \/ Return

SpecMatch == InitMatch /\ [][NextMatch]_vars

----------------------------------------------------------------------------
(* C11 *)

FindMissingCalled == last.called /\ last.op = "findMissingAttributes"

\* a pattern made of the wildcard prefix and a base name
WildcardOf(base) == <<"*", ".">> \o base

\* base names: letters, with separators between them only
BaseNames ==
    {n \in AttrNames \ {<<>>} :
        /\ n[1] = "k" /\ n[Len(n)] = "k"
        /\ \A i \in DOMAIN n : n[i] # "*"}

\* C11 as stated: the wildcard pattern of a base name is satisfied by the
\* base name under one more label and by the bare base name; a pattern
\* without wildcard is satisfied by the equal name only.
C11_Stated ==
    FindMissingCalled =>
        \A base \in BaseNames :
            /\ (last.required = <<WildcardOf(base)>> /\ last.attrs = <<base>>)
                    => last.missing = <<>>
            /\ (last.required = <<WildcardOf(base)>> /\ last.attrs = <<<<"k", ".">> \o base>>)
                    => last.missing = <<>>
            /\ (last.required = <<base>> /\ last.attrs = <<<<"k", ".">> \o base>>)
                    => last.missing = <<base>>

\* C11, amended: findMissing returns the required patterns no held name
\* satisfies, in order; the wildcard pattern of a base name is satisfied by
\* every name that ends with the separator and the base name, so by the base
\* name under one more label, and never by the bare base name; a pattern
\* without wildcard is satisfied by the equal name only.
C11_WildcardMatching ==
    FindMissingCalled =>
        /\ last.missing = Unmatched(last.required, last.attrs)
        /\ \A i \in DOMAIN last.required :
              LET pattern == last.required[i]
                  base == SubSeq(pattern, 3, Len(pattern))
                  missing == \E j \in DOMAIN last.missing : last.missing[j] = pattern
              IN IF HasPrefix(pattern, <<"*", ".">>)
                 THEN /\ (\E n \in DOMAIN last.attrs :
                             \E label \in SeqsUpTo(AttrChars, MaxNameLen) :
                                 last.attrs[n] = label \o <<".">> \o base) <=> ~missing
                      /\ (\A n \in DOMAIN last.attrs : last.attrs[n] = base) => missing
                 ELSE missing <=>
                        \/ pattern = <<>>
                        \/ \A n \in DOMAIN last.attrs : last.attrs[n] # pattern

\* the wildcard pattern of k against the bare name k: the pattern is missing
C11_Witness ==
    /\ FindMissingCalled
    /\ last.required = << <<"*", ".", "k">>, <<"k">> >>
    /\ last.attrs = << <<"k">> >>
    /\ last.missing = << <<"*", ".", "k">> >>

----------------------------------------------------------------------------
(* Access grants of a marker: GrantAccess and RevokeAccess (types/marker.go) *)

\* sdk.VerifyAddressFormat: an empty address is malformed
MalformedAddr == ""
VerifyAddressFormat(addr) == addr # MalformedAddr

ErrInvalidGrant == "invalid access grant"
ErrRevokeInvalidAddress == "can not revoke access for invalid address"

\* the roles a grant may name
AllRoles == {Access_Deposit, Access_Withdraw, Access_Transfer}

NewAccessGrant(address, permissions) == [Address |-> address, Permissions |-> permissions]

\* AccessGrant.Validate: a well-formed address and at least one role
AccessGrantValidate(access) ==
    IF VerifyAddressFormat(access.Address) /\ access.Permissions # {}
          /\ access.Permissions \subseteq AllRoles
    THEN NoError
    ELSE Error(ErrInvalidGrant, <<access.Address>>, "", "", <<>>)

\* AccessGrant.MergeAdd: the roles of other are added to those of access
MergeAdd(access, other) ==
    NewAccessGrant(access.Address, access.Permissions \cup other.Permissions)

\* RevokeAccess removes any AccessGrant for the given address on this marker.
RevokeAccess(ma, addr) ==
    IF ~VerifyAddressFormat(addr)
    THEN [marker |-> ma, err |-> Error(ErrRevokeInvalidAddress, <<addr>>, "", "", <<>>)]
    ELSE LET Kept(ac) == ac.Address # addr
         IN [marker |-> [ma EXCEPT !.AccessControl = SelectSeq(@, Kept)],
             err |-> NoError]

\* the loop of GrantAccess: every existing grant of the address is merged in
RECURSIVE GrantAccess_Merge(_, _)
GrantAccess_Merge(access, acl) ==
    IF acl = <<>>
    THEN access
    ELSE GrantAccess_Merge(
            IF Head(acl).Address = access.Address
            THEN MergeAdd(access, NewAccessGrant(Head(acl).Address, Head(acl).Permissions))
            ELSE access,
            Tail(acl))

\* slip: the existing grant of the address is not revoked before the append
GrantAccess_NoRevoke(ma, access) ==
    IF AccessGrantValidate(access) # NoError
    THEN [marker |-> ma, err |-> AccessGrantValidate(access)]
    ELSE LET merged == GrantAccess_Merge(access, ma.AccessControl)
         IN [marker |-> [ma EXCEPT !.AccessControl =
                            Append(@, NewAccessGrant(merged.Address, merged.Permissions))],
             err |-> NoError]

\* GrantAccess appends the access grant to the marker account.
GrantAccess(ma, access) ==
    IF AccessGrantValidate(access) # NoError
    THEN [marker |-> ma, err |-> AccessGrantValidate(access)]
    ELSE LET merged == GrantAccess_Merge(access, ma.AccessControl)
             revoked == RevokeAccess(ma, merged.Address)
         IN IF revoked.err # NoError
            THEN [marker |-> ma, err |-> revoked.err]
            ELSE [marker |-> [revoked.marker EXCEPT !.AccessControl =
                                Append(@, NewAccessGrant(merged.Address, merged.Permissions))],
                  err |-> NoError]

\* the marker whose grants are edited
EditedAddr == MustGetMarkerAddress(DenomOrder[1])

GrantAddrs == Grantees \cup {MalformedAddr}
GrantInputs == {NewAccessGrant(a, p) : a \in GrantAddrs, p \in SUBSET AllRoles}

\* a proposed marker of either type with at most MaxPermissions permissions
InitAccess ==
    /\ \E mt \in MarkerTypes : \E acl \in AccessLists(mt) :
          accounts = (EditedAddr :>
                        NewMarkerAccount(DenomOrder[1], "manager", acl, StatusProposed, mt, <<>>))
    /\ sendDeny = {}
    /\ attributes = [a \in AttrHolders |-> [names |-> <<>>, err |-> FALSE]]
    /\ last = NoCall

Grant(access) ==
    LET ma == accounts[EditedAddr]
        out == GrantAccess(ma, access)
    IN /\ accounts' = [accounts EXCEPT ![EditedAddr] = out.marker]
       /\ last' = [called |-> TRUE, op |-> "GrantAccess", access |-> access,
                   before |-> ma.AccessControl, err |-> out.err]
       /\ UNCHANGED <<sendDeny, attributes>>

Revoke(addr) ==
    LET ma == accounts[EditedAddr]
        out == RevokeAccess(ma, addr)
    IN /\ accounts' = [accounts EXCEPT ![EditedAddr] = out.marker]
       /\ last' = [called |-> TRUE, op |-> "RevokeAccess", addr |-> addr,
                   before |-> ma.AccessControl, err |-> out.err]
       /\ UNCHANGED <<sendDeny, attributes>>

GrantCall == \E access \in GrantInputs : Grant(access)
RevokeCall == \E addr \in GrantAddrs : Revoke(addr)

NextAccess == GrantCall \/ RevokeCall

SpecAccess == InitAccess /\ [][NextAccess]_vars

----------------------------------------------------------------------------
(* C12 *)

\* the roles an address holds in an access-control list
RolesOf(acl, addr) == UNION {acl[i].Permissions : i \in {j \in DOMAIN acl : acl[j].Address = addr}}
EntriesOf(acl, addr) == Cardinality({j \in DOMAIN acl : acl[j].Address = addr})

\* C12: through every sequence of grantAccess and revokeAccess on a marker no
\* address has more than one access-control entry and no entry is without
\* roles; a successful grantAccess(A, R) leaves A with the roles it held
\* before and R, and every other address with its roles; a grantAccess that
\* fails validation leaves the list as it was; revokeAccess of a well-formed
\* address leaves that address without entry and every other entry as it
\* was, so it is an ok no-op for an address without grant; revokeAccess of a
\* malformed address fails and leaves the list as it was.
C12_GrantUniquenessUnion ==
    LET acl == accounts[EditedAddr].AccessControl
    IN /\ \A a \in GrantAddrs : EntriesOf(acl, a) <= 1
       /\ \A i \in DOMAIN acl : acl[i].Permissions # {}
       /\ (last.called /\ last.op = "GrantAccess") =>
             IF last.err = NoError
             THEN /\ RolesOf(acl, last.access.Address)
                        = RolesOf(last.before, last.access.Address) \cup last.access.Permissions
                  /\ EntriesOf(acl, last.access.Address) = 1
                  /\ \A a \in GrantAddrs \ {last.access.Address} :
                        RolesOf(acl, a) = RolesOf(last.before, a)
             ELSE /\ acl = last.before
                  /\ \/ ~VerifyAddressFormat(last.access.Address)
                     \/ last.access.Permissions = {}
       /\ (last.called /\ last.op = "RevokeAccess") =>
             IF VerifyAddressFormat(last.addr)
             THEN /\ last.err = NoError
                  /\ EntriesOf(acl, last.addr) = 0
                  /\ \A a \in GrantAddrs \ {last.addr} :
                        RolesOf(acl, a) = RolesOf(last.before, a)
                  /\ EntriesOf(last.before, last.addr) = 0 => acl = last.before
             ELSE last.err # NoError /\ acl = last.before

\* a grant of an overlapping but different role set to an address that
\* already holds roles, next to another address's entry
C12_Witness ==
    LET acl == accounts[EditedAddr].AccessControl
    IN /\ last.called /\ last.op = "GrantAccess" /\ last.err = NoError
       /\ Len(last.before) = 2
       /\ last.before[1].Address = last.access.Address
       /\ last.before[1].Permissions \cap last.access.Permissions # {}
       /\ last.before[1].Permissions \ last.access.Permissions # {}
       /\ last.access.Permissions \ last.before[1].Permissions # {}
       /\ Len(acl) = 2
       /\ acl[2].Address = last.access.Address
       /\ acl[2].Permissions = AllRoles

----------------------------------------------------------------------------
(* C13 *)

\* C13 as stated, for the lookup of from and of to: in a normal send a
\* failed lookup of the account of from or of to ends the call with the
\* lookup error.
C13_Stated ==
    NormalSend /\ PositiveCoins =>
        (LookupFails(last.fromAddr) \/ LookupFails(last.toAddr)
            => last.result.err.msg = ErrNotMarkerAccount)

DenomLookupFails(i) == LookupFails(MustGetMarkerAddress(DenomAt(i)))

\* C13, amended: in a normal send, a failed marker lookup for a denom ends
\* the call with the lookup error when the loop gets to that denom, and the
\* transfer is never allowed; a failed attribute lookup for to ends the call
\* with that error when the rule gets to it; a failed lookup for from or for
\* to is dropped and the account is taken as no marker: no withdraw, status
\* or deposit check is made for it, and with from failing and to no marker
\* the transfer is allowed iff every denom passes the per-denom rule.
C13_LookupFailures ==
    NormalSend =>
        /\ \A i \in CoinIdx :
              /\ DenomLookupFails(i) =>
                    /\ IsDenied
                    /\ ReachedDenom(i) =>
                          /\ last.result.err.msg = ErrNotMarkerAccount
                          /\ last.result.err.addrs = <<MustGetMarkerAddress(DenomAt(i))>>
              /\ (/\ C10_Case(i)
                  /\ MarkerOfDenom(DenomAt(i)).RequiredAttributes # <<>>
                  /\ last.toAddr \notin reqAttrBypassAddrs
                  /\ HeldLookupFails(last.toAddr)) =>
                    /\ IsDenied
                    /\ ReachedDenom(i) =>
                          /\ last.result.err.msg = ErrGetAttributes
                          /\ last.result.err.addrs = <<last.toAddr>>
        /\ LookupFails(last.fromAddr) =>
              /\ ~IsWithdrawNotAuthorized(last.result.err)
              /\ last.result.err.msg # ErrWithdrawNotActive
              /\ MarkerAt(last.toAddr) = Nil =>
                    (IsAllowed <=> \A i \in CoinIdx : DenomVerdict(i) = NoError)
        /\ LookupFails(last.toAddr) => ~IsDepositNotAuthorized(last.result.err)

\* the lookup of from fails and is dropped, the lookup of a later denom
\* fails and ends the call
C13_Witness ==
    /\ NormalSend
    /\ PositiveCoins
    /\ LookupFails(last.fromAddr)
    /\ \E i \in CoinIdx :
          /\ DenomLookupFails(i)
          /\ ReachedDenom(i)
    /\ last.result.err.msg = ErrNotMarkerAccount

----------------------------------------------------------------------------
(* Editing the required attributes of a marker (types/marker.go) *)

\* longest list of names handed to one edit
MaxEdit == 2

ErrAlreadyRequired == "attribute is already required"
ErrAlreadyNotRequired == "attribute is already not required"

\* the error of an edit; the attribute it names is carried in missing
EditError(msg, name) == Error(msg, <<>>, "", "", <<name>>)

Contains(attrs, name) == \E i \in DOMAIN attrs : attrs[i] = name

\* slip: every added name is compared with the list as it was handed in
RECURSIVE AddToRequiredAttributes_Original(_, _)
AddToRequiredAttributes_Original(currentAttrs, addAttrs) ==
    IF \E i \in DOMAIN addAttrs : Contains(currentAttrs, addAttrs[i])
    THEN LET first == CHOOSE i \in DOMAIN addAttrs :
                        /\ Contains(currentAttrs, addAttrs[i])
                        /\ \A j \in 1..(i - 1) : ~Contains(currentAttrs, addAttrs[j])
         IN [attrs |-> <<>>, err |-> EditError(ErrAlreadyRequired, addAttrs[first])]
    ELSE [attrs |-> currentAttrs \o addAttrs, err |-> NoError]

\* AddToRequiredAttributes add new attributes to current list, errors if
\* attribute already exists
RECURSIVE AddToRequiredAttributes(_, _)
AddToRequiredAttributes(currentAttrs, addAttrs) ==
    IF addAttrs = <<>>
    THEN [attrs |-> currentAttrs, err |-> NoError]
    ELSE LET aa == Head(addAttrs)
         IN IF Contains(currentAttrs, aa)
            THEN [attrs |-> <<>>, err |-> EditError(ErrAlreadyRequired, aa)]
            ELSE AddToRequiredAttributes(Append(currentAttrs, aa), Tail(addAttrs))

\* the first loop of RemoveFromRequiredAttributes: the first name to remove
\* that is not in the list, or none
RECURSIVE RemoveFromRequiredAttributes_Check(_, _)
RemoveFromRequiredAttributes_Check(currentAttrs, removeAttrs) ==
    IF removeAttrs = <<>>
    THEN NoError
    ELSE IF ~Contains(currentAttrs, Head(removeAttrs))
         THEN EditError(ErrAlreadyNotRequired, Head(removeAttrs))
         ELSE RemoveFromRequiredAttributes_Check(currentAttrs, Tail(removeAttrs))

\* RemoveFromRequiredAttributes remove attributes from current list, errors
\* if attribute does not exists
RemoveFromRequiredAttributes(currentAttrs, removeAttrs) ==
    LET err == RemoveFromRequiredAttributes_Check(currentAttrs, removeAttrs)
        Kept(ca) == ~Contains(removeAttrs, ca)
    IN IF err # NoError
       THEN [attrs |-> <<>>, err |-> err]
       ELSE [attrs |-> SelectSeq(currentAttrs, Kept), err |-> NoError]

\* the attribute names of the edits, and the lists of them handed to an edit
EditNames == BaseNames
EditLists == SeqsUpTo(EditNames, MaxEdit)

\* an active restricted marker with any short list of required attributes
InitRequired ==
    /\ \E required \in SeqsUpTo(EditNames, MaxRequired) :
          accounts = (EditedAddr :>
                        NewMarkerAccount(DenomOrder[1], "", <<>>, StatusActive,
                                         MarkerType_RestrictedCoin, required))
    /\ sendDeny = {}
    /\ attributes = [a \in AttrHolders |-> [names |-> <<>>, err |-> FALSE]]
    /\ last = NoCall

\* the marker takes the edited list when the edit succeeds
AddRequired(addAttrs) ==
    LET ma == accounts[EditedAddr]
        out == AddToRequiredAttributes(ma.RequiredAttributes, addAttrs)
    IN /\ accounts' = [accounts EXCEPT ![EditedAddr].RequiredAttributes =
                            IF out.err = NoError THEN out.attrs ELSE @]
       /\ last' = [called |-> TRUE, op |-> "AddToRequiredAttributes",
                   current |-> ma.RequiredAttributes, edit |-> addAttrs,
                   attrs |-> out.attrs, err |-> out.err]
       /\ UNCHANGED <<sendDeny, attributes>>

RemoveRequired(removeAttrs) ==
    LET ma == accounts[EditedAddr]
        out == RemoveFromRequiredAttributes(ma.RequiredAttributes, removeAttrs)
    IN /\ accounts' = [accounts EXCEPT ![EditedAddr].RequiredAttributes =
                            IF out.err = NoError THEN out.attrs ELSE @]
       /\ last' = [called |-> TRUE, op |-> "RemoveFromRequiredAttributes",
                   current |-> ma.RequiredAttributes, edit |-> removeAttrs,
                   attrs |-> out.attrs, err |-> out.err]
       /\ UNCHANGED <<sendDeny, attributes>>

AddRequiredCall == \E addAttrs \in EditLists : AddRequired(addAttrs)
RemoveRequiredCall == \E removeAttrs \in EditLists : RemoveRequired(removeAttrs)

NextRequired == AddRequiredCall \/ RemoveRequiredCall

SpecRequired == InitRequired /\ [][NextRequired]_vars

----------------------------------------------------------------------------
(* C14 *)

AddCalled == last.called /\ last.op = "AddToRequiredAttributes"

\* the positions of toAdd whose name is in current
C14_InCurrent == {i \in DOMAIN last.edit : Contains(last.current, last.edit[i])}

\* C14 as stated: addRequired fails exactly when a name of toAdd is in
\* current, naming the first such name of toAdd; in every other case it
\* returns current followed by toAdd.
C14_Stated ==
    AddCalled =>
        IF C14_InCurrent # {}
        THEN /\ last.err.msg = ErrAlreadyRequired
             /\ \E i \in C14_InCurrent :
                   /\ \A j \in C14_InCurrent : i <= j
                   /\ last.err.missing = <<last.edit[i]>>
        ELSE /\ last.err = NoError
             /\ last.attrs = last.current \o last.edit

\* the positions of toAdd whose name is in current or earlier in toAdd
C14_Clashes ==
    {i \in DOMAIN last.edit :
        \/ Contains(last.current, last.edit[i])
        \/ \E j \in 1..(i - 1) : last.edit[j] = last.edit[i]}

\* C14, amended: addRequired fails with AlreadyRequired exactly when a name
\* of toAdd is in current or occurs earlier in toAdd, naming the name at the
\* first such position, and the marker keeps its list; in every other case
\* it returns current followed by toAdd, which the marker takes, so that
\* adding any of these names again fails.
C14_AddRequired ==
    AddCalled =>
        LET now == accounts[EditedAddr].RequiredAttributes
        IN IF C14_Clashes # {}
           THEN /\ last.err.msg = ErrAlreadyRequired
                /\ \E i \in C14_Clashes :
                      /\ \A j \in C14_Clashes : i <= j
                      /\ last.err.missing = <<last.edit[i]>>
                /\ now = last.current
           ELSE /\ last.err = NoError
                /\ last.attrs = last.current \o last.edit
                /\ now = last.attrs
                /\ \A i \in DOMAIN last.edit :
                      AddToRequiredAttributes(now, <<last.edit[i]>>).err
                          = EditError(ErrAlreadyRequired, last.edit[i])

\* toAdd repeats a name that is not in current: the edit fails on the repeat
C14_Witness ==
    /\ AddCalled
    /\ Len(last.edit) = 2
    /\ last.edit[1] = last.edit[2]
    /\ ~Contains(last.current, last.edit[1])
    /\ last.current # <<>>
    /\ last.err = EditError(ErrAlreadyRequired, last.edit[2])
    /\ accounts[EditedAddr].RequiredAttributes = last.current

----------------------------------------------------------------------------
(* C15 *)

\* the coins of the recorded call in every order
CoinOrders(amt) ==
    {[i \in DOMAIN amt |-> amt[f[i]]] :
        f \in {g \in [DOMAIN amt -> DOMAIN amt] :
                  \A i, j \in DOMAIN amt : i # j => g[i] # g[j]}}

\* the call of the record with its coins in the order p
Reordered(p) == SendRestrictionFn(last.ctx, last.fromAddr, last.toAddr, p)

EveryDenomPasses == \A i \in CoinIdx : DenomVerdict(i) = NoError

\* C15 as stated: the verdict is the same in every order of the coins, and
\* the transfer is allowed iff the sender-side and receiver-side checks pass
\* and every coin passes the per-denom rule (taken here where every marker
\* lookup of a coin answers).
C15_Stated ==
    Called /\ PositiveCoins /\ (\A i \in CoinIdx : ~DenomLookupFails(i)) =>
        /\ \A p \in CoinOrders(last.amt) : (Reordered(p).err = NoError) <=> IsAllowed
        /\ IsAllowed <=> (SenderSidePass /\ ReceiverSidePass /\ EveryDenomPasses)

\* C15, amended: the verdict is the same in every order of the coins; in a
\* normal send the transfer is allowed iff the sender-side and receiver-side
\* checks pass and every coin passes the per-denom rule on its own; with a
\* bypass context or a module sender those checks and that rule are not
\* run, and the transfer is allowed unless it goes to the fee collector with
\* a coin whose marker is restricted or cannot be looked up.
C15_OrderIndependence ==
    Called =>
        /\ \A p \in CoinOrders(last.amt) :
              /\ (Reordered(p).err = NoError) <=> IsAllowed
              /\ Reordered(p).err = NoError => Reordered(p).addr = last.toAddr
        /\ NormalSend =>
              (IsAllowed <=> (SenderSidePass /\ ReceiverSidePass /\ EveryDenomPasses))
        /\ Exempt =>
              (IsAllowed <=> (last.toAddr # feeCollectorAddr \/ C7_Stops = {}))

\* two coins that both fail the per-denom rule, each for its own reason: the
\* transfer is denied in both orders, with the reason of the coin met first
C15_Witness ==
    /\ NormalSend
    /\ PositiveCoins
    /\ Len(last.amt) = 2
    /\ ReachedDenom(1)
    /\ DenomVerdict(1) # NoError
    /\ DenomVerdict(2) # NoError
    /\ DenomVerdict(1).msg # DenomVerdict(2).msg
    /\ last.result.err = DenomVerdict(1)
    /\ Reordered(<<last.amt[2], last.amt[1]>>).err = DenomVerdict(2)

----------------------------------------------------------------------------
(* Status and manager of a marker: SetStatus and SetManager (types/marker.go) *)

StatusUndefined == "undefined"

ErrInvalidStatus == "error invalid marker status"
ErrManagerNotProposed == "manager address is only valid for proposed markers"
ErrInvalidAddress == "invalid address"

\* slip: the manager is left in place at activation
SetStatus_ManagerKept(ma, status) ==
    IF status = StatusUndefined
    THEN [marker |-> ma, err |-> Error(ErrInvalidStatus, <<>>, "", "", <<>>)]
    ELSE [marker |-> [ma EXCEPT !.Status = status], err |-> NoError]

\* SetStatus sets the status of the marker to the provided value.
SetStatus(ma, status) ==
    IF status = StatusUndefined
    THEN [marker |-> ma, err |-> Error(ErrInvalidStatus, <<>>, "", "", <<>>)]
    ELSE [marker |-> [ma EXCEPT !.Manager = IF status = StatusActive THEN "" ELSE @,
                                !.Status = status],
          err |-> NoError]

\* SetManager sets the manager/owner address for proposed marker accounts
SetManager(ma, manager) ==
    IF manager # "" /\ ma.Status # StatusProposed
    THEN [marker |-> ma, err |-> Error(ErrManagerNotProposed, <<manager>>, "", "", <<>>)]
    ELSE IF ~VerifyAddressFormat(manager)
    THEN [marker |-> ma, err |-> Error(ErrInvalidAddress, <<manager>>, "", "", <<>>)]
    ELSE [marker |-> [ma EXCEPT !.Manager = manager], err |-> NoError]

Statuses == {MarkerStatusOrder[i] : i \in DOMAIN MarkerStatusOrder}
StatusInputs == Statuses \cup {StatusUndefined}
Managers == {"", "manager", "alice"}

\* a marker of any status, as NewMarkerAccount builds it
InitLifecycle ==
    /\ \E st \in Statuses, manager \in Managers, mt \in MarkerTypes :
          accounts = (EditedAddr :>
                        NewMarkerAccount(DenomOrder[1], manager, <<>>, st, mt, <<>>))
    /\ sendDeny = {}
    /\ attributes = [a \in AttrHolders |-> [names |-> <<>>, err |-> FALSE]]
    /\ last = NoCall

StatusSet(status) ==
    LET ma == accounts[EditedAddr]
        out == SetStatus(ma, status)
    IN /\ accounts' = [accounts EXCEPT ![EditedAddr] = out.marker]
       /\ last' = [called |-> TRUE, op |-> "SetStatus", status |-> status,
                   before |-> [Status |-> ma.Status, Manager |-> ma.Manager],
                   err |-> out.err]
       /\ UNCHANGED <<sendDeny, attributes>>

ManagerSet(manager) ==
    LET ma == accounts[EditedAddr]
        out == SetManager(ma, manager)
    IN /\ accounts' = [accounts EXCEPT ![EditedAddr] = out.marker]
       /\ last' = [called |-> TRUE, op |-> "SetManager", manager |-> manager,
                   before |-> [Status |-> ma.Status, Manager |-> ma.Manager],
                   err |-> out.err]
       /\ UNCHANGED <<sendDeny, attributes>>

SetStatusCall == \E status \in StatusInputs : StatusSet(status)
SetManagerCall == \E manager \in Managers : ManagerSet(manager)

NextLifecycle == SetStatusCall \/ SetManagerCall

SpecLifecycle == InitLifecycle /\ [][NextLifecycle]_vars

----------------------------------------------------------------------------
(* C16 *)

\* C16: a successful setStatus(Active) leaves the marker active with an
\* empty manager; from a state whose status is not Proposed no setStatus or
\* setManager call makes an empty manager non-empty, so the manager stays
\* empty for as long as the status does not return to Proposed; setManager
\* with a non-empty manager while the status is not Proposed fails and
\* leaves the marker as it was.
C16_ManagerCleared ==
    [][LET ma == accounts[EditedAddr]
           after == accounts'[EditedAddr]
       IN /\ (last'.op = "SetStatus" /\ last'.status = StatusActive) =>
                /\ last'.err = NoError
                /\ after.Status = StatusActive
                /\ after.Manager = ""
          /\ (ma.Manager = "" /\ ma.Status # StatusProposed) => after.Manager = ""
          /\ (last'.op = "SetManager" /\ last'.manager # "" /\ ma.Status # StatusProposed) =>
                /\ last'.err # NoError
                /\ after = ma]_vars

\* the activation of a finalized marker that had a manager
C16_Witness ==
    /\ last.called /\ last.op = "SetStatus" /\ last.status = StatusActive
    /\ last.err = NoError
    /\ last.before.Status = StatusFinalized
    /\ last.before.Manager # ""
    /\ accounts[EditedAddr].Status = StatusActive
    /\ accounts[EditedAddr].Manager = ""

====
